---- MODULE Spec2Model ----
(***************************************************************************)
(* Model of computation-dag-async: the graph builder (src/src/dag.rs), the *)
(* operation evaluator (src/src/operation.rs) and the execution engine     *)
(* (src/src/computation.rs).                                               *)
(*                                                                         *)
(* Dag.nodes and Computation.computations are std HashMaps: their          *)
(* iteration order is unspecified, so every iteration takes an arbitrary   *)
(* order of the keys (IterationOrders).                                    *)
(***************************************************************************)
EXTENDS Integers, Sequences, FiniteSets, TLC

\* Bounds of the exploration: the nodes a caller adds to a graph, the parents
\* it names in one add_node call, and the length of the chain that stands for
\* the 100_000 nodes of process_long_dag. The graphs of the repository's
\* tests are explored besides, whatever their size.
MaxNodes == 2
MaxParents == 1
ChainLength == 4

\* The engine is generic in the value type T. The tests of the repository
\* instantiate it with i32; the model keeps the signed two's-complement
\* arithmetic of that type at a width of T_BITS bits, a bound of the model.
T_BITS == 8
T_MODULUS == 2 ^ T_BITS
T_MIN == -(2 ^ (T_BITS - 1))
T_MAX == 2 ^ (T_BITS - 1) - 1

\* Initial values handed to Computation::process.
InitialValues == {1, 3, -8}

VARIABLES
    dag,             \* Dag { nodes, starts, current_id }
    returned,        \* the ids returned by the add_node calls so far, in call order
    called,          \* the arguments of the add_node calls that returned, in call order
    dot_text,        \* the lines returned by the last call, when that call was Dag::dot
    comp,            \* Computation { result_receivers, initial_senders, receivers/senders of each node }
    chans,           \* the oneshot channels: endpoint states and the value in flight
    tasks,           \* one spawned task per ComputationNode: position, inputs, result
    results,         \* the results vector of Computation::process
    run,             \* the initial value of the process call, and the build profile
                     \* as far as the run has observed it
    phase            \* where the program is

vars == <<dag, returned, called, dot_text, comp, chans, tasks, results, run, phase>>

(***************************************************************************)
(* src/src/operation.rs                                                    *)
(***************************************************************************)
OperationType == {"Default", "Delay", "Sum", "Product"}

\* T::default()
DefaultValue == 0

\* The value of type T that wrapping arithmetic gives for the integer x.
Wrap(x) == ((x - T_MIN) % T_MODULUS) + T_MIN

Overflows(x) == x < T_MIN \/ x > T_MAX

\* Iterator::sum over &T: a left fold from 0. An addition that overflows T
\* panics when overflow checks are compiled in (the dev and test profiles)
\* and wraps otherwise (the release profile).
RECURSIVE SumFold(_, _, _)
SumFold(acc, values, checks) ==
    IF values = <<>> THEN [ok |-> TRUE, value |-> acc]
    ELSE LET s == acc + Head(values) IN
         IF Overflows(s) /\ checks THEN [ok |-> FALSE, value |-> acc]
         ELSE SumFold(Wrap(s), Tail(values), checks)

sum(values, checks) == SumFold(0, values, checks)

\* Iterator::product over &T: a left fold from 1, overflowing like sum.
RECURSIVE ProductFold(_, _, _)
ProductFold(acc, values, checks) ==
    IF values = <<>> THEN [ok |-> TRUE, value |-> acc]
    ELSE LET p == acc * Head(values) IN
         IF Overflows(p) /\ checks THEN [ok |-> FALSE, value |-> acc]
         ELSE ProductFold(Wrap(p), Tail(values), checks)

product(values, checks) == ProductFold(1, values, checks)

default(values) == [ok |-> TRUE, value |-> DefaultValue]

\* delay_for(2 s), then the default value.
delay(values) == [ok |-> TRUE, value |-> DefaultValue]

\* Operation::process with the arms of Sum and Product exchanged.
OperationProcessSwapped(operation, values, checks) ==
    CASE operation = "Default" -> default(values)
      [] operation = "Delay" -> delay(values)
      [] operation = "Sum" -> product(values, checks)
      [] operation = "Product" -> sum(values, checks)

\* Operation::process
OperationProcess(operation, values, checks) ==
    CASE operation = "Default" -> default(values)
      [] operation = "Delay" -> delay(values)
      [] operation = "Sum" -> sum(values, checks)
      [] operation = "Product" -> product(values, checks)

(***************************************************************************)
(* src/src/dag.rs                                                          *)
(***************************************************************************)
\* Node::new
NewNode(id, operation) == [id |-> id, children |-> <<>>, operation |-> operation]

\* impl Default for Dag
DefaultDag == [nodes |-> <<>>, starts |-> <<>>, current_id |-> 0]

\* Dag::next_id without the increment.
NextIdWithoutIncrement(d) == d

\* Dag::next_id
next_id(d) == [d EXCEPT !.current_id = @ + 1]

\* The for_each over parents that pushes id to a parent once, however often
\* the parent is named.
RECURSIVE PushChildrenOnce(_, _, _)
PushChildrenOnce(nodes, parents, id) ==
    IF parents = <<>> THEN [nodes |-> nodes, ok |-> TRUE]
    ELSE IF Head(parents) \notin DOMAIN nodes THEN [nodes |-> nodes, ok |-> FALSE]
    ELSE IF \E k \in DOMAIN nodes[Head(parents)].children :
               nodes[Head(parents)].children[k] = id
    THEN PushChildrenOnce(nodes, Tail(parents), id)
    ELSE PushChildrenOnce([nodes EXCEPT ![Head(parents)].children = Append(@, id)],
                          Tail(parents), id)

\* The for_each over parents in add_node: pushes id to the children of each
\* parent in turn; get_mut(parent_id).unwrap() panics at the first parent that
\* is not in the map, leaving the pushes made before it.
RECURSIVE PushChildren(_, _, _)
PushChildren(nodes, parents, id) ==
    IF parents = <<>> THEN [nodes |-> nodes, ok |-> TRUE]
    ELSE IF Head(parents) \notin DOMAIN nodes THEN [nodes |-> nodes, ok |-> FALSE]
    ELSE PushChildren([nodes EXCEPT ![Head(parents)].children = Append(@, id)],
                      Tail(parents), id)

\* Dag::add_node with self.starts.push(id) moved out of the if.
AddNodeEveryNodeStarts(d, operation, parents) ==
    LET d1 == next_id(d)
        id == d1.current_id
        inserted == (id :> NewNode(id, operation)) @@ d1.nodes
        pushed == PushChildren(inserted, parents, id)
    IN  [dag |-> [d1 EXCEPT !.nodes = pushed.nodes, !.starts = Append(@, id)],
         id |-> id, ok |-> pushed.ok]

\* Dag::add_node: the graph after the call, the id, and whether the call returned.
add_node(d, operation, parents) ==
    LET d1 == next_id(d)
        id == d1.current_id
        inserted == (id :> NewNode(id, operation)) @@ d1.nodes
    IN  IF Len(parents) = 0
        THEN [dag |-> [d1 EXCEPT !.nodes = inserted, !.starts = Append(@, id)],
              id |-> id, ok |-> TRUE]
        ELSE LET pushed == PushChildren(inserted, parents, id)
             IN  [dag |-> [d1 EXCEPT !.nodes = pushed.nodes], id |-> id, ok |-> pushed.ok]

\* The orders in which a HashMap with the keys S may be iterated.
RECURSIVE IterationOrders(_)
IterationOrders(S) ==
    IF S = {} THEN {<<>>}
    ELSE UNION {{<<x>> \o t : t \in IterationOrders(S \ {x})} : x \in S}

StandaloneLine(id) == "  " \o ToString(id) \o ";"
EdgeLine(parent_id, child_id) ==
    "  " \o ToString(parent_id) \o " -> " \o ToString(child_id) \o ";"

RECURSIVE EdgeLines(_, _)
EdgeLines(parent_id, children) ==
    IF children = <<>> THEN <<>>
    ELSE <<EdgeLine(parent_id, Head(children))>> \o EdgeLines(parent_id, Tail(children))

\* The closure of Dag::dot writing the line of the node before its edges,
\* children or not.
NodeLinesAlwaysNamed(node) ==
    <<StandaloneLine(node.id)>> \o EdgeLines(node.id, node.children)

\* The closure of the for_each in Dag::dot, for one node.
NodeLines(node) ==
    IF Len(node.children) = 0 THEN <<StandaloneLine(node.id)>>
    ELSE EdgeLines(node.id, node.children)

RECURSIVE DotBody(_, _)
DotBody(d, order) ==
    IF order = <<>> THEN <<>>
    ELSE NodeLines(d.nodes[Head(order)]) \o DotBody(d, Tail(order))

\* Dag::dot, as the sequence of the lines of the returned string, the
\* nodes being visited in the given order.
dot(d, order) == <<"digraph {">> \o DotBody(d, order) \o <<"}">>

(***************************************************************************)
(* src/src/computation.rs: Computation::new                                *)
(*                                                                         *)
(* A oneshot channel is named by the place that creates it:                *)
(* <<"edge", parent, k>> for the k-th child of parent, <<"result", id, 0>> *)
(* for a node without children, <<"init", id, 0>> for a start node.        *)
(***************************************************************************)
EdgeChannel(parent_id, k) == <<"edge", parent_id, k>>
ResultChannel(id) == <<"result", id, 0>>
InitChannel(id) == <<"init", id, 0>>

\* ComputationNode::new
NewComputationNode(id, operation) ==
    [id |-> id, operation |-> operation, receivers |-> <<>>, senders |-> <<>>]

\* ComputationNode::add_input
add_input(node, receiver) == [node EXCEPT !.receivers = Append(@, receiver)]

\* ComputationNode::add_output
add_output(node, sender) == [node EXCEPT !.senders = Append(@, sender)]

\* First pass of Computation::new: one ComputationNode per graph node.
CreateNodes(d) ==
    [id \in DOMAIN d.nodes |-> NewComputationNode(id, d.nodes[id].operation)]

\* The inner for_each with the parent left in the map (get_mut without the
\* remove): a child that is the parent itself is wired like any other.
RECURSIVE WireChildrenParentInMap(_, _, _, _)
WireChildrenParentInMap(w, id, children, k) ==
    IF k > Len(children) THEN w
    ELSE LET child_id == children[k]
             c == EdgeChannel(id, k)
         IN  IF child_id \notin DOMAIN w.computations
             THEN [w EXCEPT !.ok = FALSE]
             ELSE WireChildrenParentInMap(
                    [w EXCEPT !.computations[id] = add_output(@, c),
                              !.computations[child_id] = add_input(@, c),
                              !.created = @ \cup {c}],
                    id, children, k + 1)

\* The inner for_each over node.children, from the k-th child on. The parent
\* is out of the map while its children are wired (computations.remove), so
\* get_mut(child_id).unwrap() panics when a child is the parent itself.
RECURSIVE WireChildren(_, _, _, _)
WireChildren(w, id, children, k) ==
    IF k > Len(children) THEN w
    ELSE LET child_id == children[k]
             c == EdgeChannel(id, k)
         IN  IF child_id \notin (DOMAIN w.computations) \ {id}
             THEN [w EXCEPT !.ok = FALSE]
             ELSE WireChildren(
                    [w EXCEPT !.computations[id] = add_output(@, c),
                              !.computations[child_id] = add_input(@, c),
                              !.created = @ \cup {c}],
                    id, children, k + 1)

\* The body of the second for_each without result_receivers.push(receiver).
WireNodeDropsReceiver(w, node) ==
    IF Len(node.children) = 0
    THEN LET c == ResultChannel(node.id)
         IN  [w EXCEPT !.computations[node.id] = add_output(@, c),
                       !.created = @ \cup {c}]
    ELSE WireChildren(w, node.id, node.children, 1)

\* The body of the second for_each of Computation::new, for one node.
WireNode(w, node) ==
    IF Len(node.children) = 0
    THEN LET c == ResultChannel(node.id)
         IN  [w EXCEPT !.computations[node.id] = add_output(@, c),
                       !.result_receivers = Append(@, c),
                       !.created = @ \cup {c}]
    ELSE WireChildren(w, node.id, node.children, 1)

\* Second pass: the nodes in the iteration order of dag.nodes.
RECURSIVE WireNodes(_, _, _)
WireNodes(w, d, order) ==
    IF order = <<>> \/ ~w.ok THEN w
    ELSE WireNodes(WireNode(w, d.nodes[Head(order)]), d, Tail(order))

\* The third pass stopping after the first id of dag.starts.
WireStartsFirstOnly(w, starts) ==
    IF starts = <<>> \/ ~w.ok THEN w
    ELSE LET id == Head(starts)
             c == InitChannel(id)
         IN  IF id \notin DOMAIN w.computations
             THEN [w EXCEPT !.ok = FALSE]
             ELSE [w EXCEPT !.computations[id] = add_input(@, c),
                            !.initial_senders = Append(@, c),
                            !.created = @ \cup {c}]

\* Third pass: one initial-value channel per id of dag.starts.
RECURSIVE WireStarts(_, _)
WireStarts(w, starts) ==
    IF starts = <<>> \/ ~w.ok THEN w
    ELSE LET id == Head(starts)
             c == InitChannel(id)
         IN  IF id \notin DOMAIN w.computations
             THEN [w EXCEPT !.ok = FALSE]
             ELSE WireStarts(
                    [w EXCEPT !.computations[id] = add_input(@, c),
                              !.initial_senders = Append(@, c),
                              !.created = @ \cup {c}],
                    Tail(starts))

\* Computation::new(dag), dag.nodes being iterated in the given order (both
\* passes iterate the same, unmodified map). ok is FALSE when new panics.
ComputationNew(d, order) ==
    LET w0 == [ok |-> TRUE, computations |-> CreateNodes(d),
               result_receivers |-> <<>>, initial_senders |-> <<>>, created |-> {}]
    IN  WireStarts(WireNodes(w0, d, order), d.starts)

RECURSIVE SeqToSet(_)
SeqToSet(s) == IF s = <<>> THEN {} ELSE {Head(s)} \cup SeqToSet(Tail(s))

\* The endpoints a Computation holds: a Sender or Receiver that new stored
\* nowhere is dropped when new returns.
HeldSenders(w) ==
    SeqToSet(w.initial_senders)
        \cup UNION {SeqToSet(w.computations[id].senders) : id \in DOMAIN w.computations}
HeldReceivers(w) ==
    SeqToSet(w.result_receivers)
        \cup UNION {SeqToSet(w.computations[id].receivers) : id \in DOMAIN w.computations}

\* tokio::sync::oneshot::channel(): tx is "held", "sent" or "dropped"; rx is
\* "held", "received" or "dropped"; slot is <<>> or the value sent.
NewChannels(w) ==
    [c \in w.created |->
        [tx |-> IF c \in HeldSenders(w) THEN "held" ELSE "dropped",
         rx |-> IF c \in HeldReceivers(w) THEN "held" ELSE "dropped",
         slot |-> <<>>]]

NoComputation ==
    [computations |-> <<>>, result_receivers |-> <<>>, initial_senders |-> <<>>]

(***************************************************************************)
(* src/src/computation.rs: ComputationNode::process, Computation::process  *)
(***************************************************************************)
\* A send that takes the Sender by reference: the value is stored and the
\* Sender stays usable.
SendKeepsSender(ch, c, value) ==
    IF ch[c].rx = "dropped"
    THEN [chans |-> [ch EXCEPT ![c].tx = "dropped"], ok |-> FALSE]
    ELSE [chans |-> [ch EXCEPT ![c].slot = <<value>>], ok |-> TRUE]

\* oneshot Sender::send: fails when the Receiver has been dropped; the Sender
\* is consumed either way.
Send(ch, c, value) ==
    IF ch[c].rx = "dropped"
    THEN [chans |-> [ch EXCEPT ![c].tx = "dropped"], ok |-> FALSE]
    ELSE [chans |-> [ch EXCEPT ![c].tx = "sent", ![c].slot = <<value>>], ok |-> TRUE]

\* Dropping a ComputationNode drops the Receivers and the unsent Senders it owns.
DropNode(ch, node) ==
    [c \in DOMAIN ch |->
        [ch[c] EXCEPT
           !.rx = IF c \in SeqToSet(node.receivers) /\ @ = "held" THEN "dropped" ELSE @,
           !.tx = IF c \in SeqToSet(node.senders) /\ @ = "held" THEN "dropped" ELSE @]]

\* The for_each over initial_senders in Computation::process:
\* sender.send(initial.clone()).expect("Error sending").
RECURSIVE SendInitial(_, _, _)
SendInitial(ch, senders, initial) ==
    IF senders = <<>> THEN [chans |-> ch, ok |-> TRUE]
    ELSE LET r == Send(ch, Head(senders), initial)
         IN  IF r.ok THEN SendInitial(r.chans, Tail(senders), initial) ELSE r

\* The loop over the receivers left after its first turn at most.
AfterRecvSkipsRest(node, next) ==
    IF next > Len(node.receivers) \/ next > 1 THEN "operate" ELSE "recv"

\* Where a task stands once it has read next - 1 of its receivers.
AfterRecv(node, next) == IF next > Len(node.receivers) THEN "operate" ELSE "recv"

\* Where a task stands once it has written next - 1 of its senders: after the
\* last one the future completes.
AfterSend(node, next) == IF next > Len(node.senders) THEN "done" ELSE "send"

\* A task as tokio::spawn creates it, about to await its first receiver.
SpawnedTask(node) ==
    [pc |-> AfterRecv(node, 1), next |-> 1, inputs |-> <<>>, result |-> <<>>]

TaskFinished(t) == t.pc \in {"done", "panicked"}

\* The order in which Computation::process reads the result receivers.
ResultOrder(c) == c.result_receivers

(***************************************************************************)
(* Graphs the tests of the repository build, as sequences of add_node calls *)
(***************************************************************************)
Call(operation, parents) == [operation |-> operation, parents |-> parents]

\* computation.rs, process_addition_single_result
AdditionSingleResult ==
    <<Call("Sum", <<>>), Call("Sum", <<>>), Call("Sum", <<>>), Call("Sum", <<1, 2, 3>>)>>

\* computation.rs, process_addition_dag
AdditionDag ==
    <<Call("Sum", <<>>), Call("Sum", <<>>), Call("Sum", <<>>),
      Call("Sum", <<1, 2>>), Call("Sum", <<2, 3>>), Call("Sum", <<4, 5>>)>>

\* dag.rs, dot_print
DotPrint ==
    <<Call("Default", <<>>), Call("Default", <<>>), Call("Default", <<1, 2>>),
      Call("Default", <<3>>), Call("Default", <<3>>)>>

\* computation.rs, process_default_many_branches
DefaultManyBranches ==
    <<Call("Default", <<>>), Call("Default", <<>>), Call("Default", <<>>)>>

\* computation.rs, process_long_dag, with n nodes after the first
RECURSIVE LongDag(_)
LongDag(n) ==
    IF n = 0 THEN <<Call("Sum", <<>>)>>
    ELSE Append(LongDag(n - 1), Call("Sum", <<n>>))

\* A graph of Sum and Product nodes in which a node has three parent edges
\* with different inputs, 2 = Product(1, 1) and 3 = Sum(2, 2, 1), and which
\* has a second terminal node.
ThreeInputs ==
    <<Call("Sum", <<>>), Call("Product", <<1, 1>>), Call("Sum", <<2, 2, 1>>),
      Call("Sum", <<>>)>>

\* A graph with a parent named twice in one call, 2 = Sum(1, 1) and
\* 3 = Product(2, 2), and a node, 4 = Sum(3, 1), one parent of which is the
\* other's ancestor.
DoubledParent ==
    <<Call("Sum", <<>>), Call("Sum", <<1, 1>>), Call("Product", <<2, 2>>),
      Call("Sum", <<3, 1>>)>>

\* The graph and the returned ids after a sequence of calls that all return.
RECURSIVE Built(_)
Built(calls) ==
    IF calls = <<>> THEN [dag |-> DefaultDag, returned |-> <<>>]
    ELSE LET b == Built(SubSeq(calls, 1, Len(calls) - 1))
             c == calls[Len(calls)]
             r == add_node(b.dag, c.operation, c.parents)
         IN  [dag |-> r.dag, returned |-> Append(b.returned, r.id)]

(***************************************************************************)
(* Actions                                                                 *)
(***************************************************************************)
\* Whether overflow checks are compiled in is a property of the build. It
\* shows only at a reduction that overflows, so the model leaves it
\* "unobserved" until the first such reduction and keeps it from then on.
NoRun == [initial |-> DefaultValue, profile |-> "unobserved"]

Profiles(r) ==
    CASE r.profile = "unobserved" -> {TRUE, FALSE}
      [] r.profile = "checked" -> {TRUE}
      [] r.profile = "unchecked" -> {FALSE}

Observed(r, overflowed, checks) ==
    IF overflowed
    THEN [r EXCEPT !.profile = IF checks THEN "checked" ELSE "unchecked"]
    ELSE r

InitFrom(scripts) ==
    /\ \E calls \in scripts :
          /\ dag = Built(calls).dag
          /\ returned = Built(calls).returned
          /\ called = calls
    /\ dot_text = <<>>
    /\ comp = NoComputation
    /\ chans = <<>>
    /\ tasks = <<>>
    /\ results = <<>>
    /\ run = NoRun
    /\ phase = "build"

\* The parent lists a caller may pass: any ids, existing or not, repeated or not.
ParentLists(d) ==
    UNION {[1..n -> 1..(d.current_id + 2)] : n \in 0..MaxParents}

\* A call of Dag::add_node. A call that panics leaves the graph as it was at
\* the failing unwrap.
AddNode ==
    /\ phase = "build"
    /\ dag.current_id < MaxNodes
    /\ \E operation \in OperationType, parents \in ParentLists(dag) :
          LET r == add_node(dag, operation, parents)
          IN  /\ dag' = r.dag
              /\ returned' = IF r.ok THEN Append(returned, r.id) ELSE returned
              /\ called' = IF r.ok THEN Append(called, Call(operation, parents))
                           ELSE called
              /\ phase' = IF r.ok THEN "build" ELSE "add_node_panicked"
    /\ dot_text' = <<>>
    /\ UNCHANGED <<comp, chans, tasks, results, run>>

\* A call of Dag::dot.
Dot ==
    /\ phase = "build"
    /\ \E order \in IterationOrders(DOMAIN dag.nodes) : dot_text' = dot(dag, order)
    /\ UNCHANGED <<dag, returned, called, comp, chans, tasks, results, run, phase>>

\* Computation::new(&dag, debug).
Compile ==
    /\ phase = "build"
    /\ \E order \in IterationOrders(DOMAIN dag.nodes) :
          LET w == ComputationNew(dag, order)
          IN  IF w.ok
              THEN /\ comp' = [computations |-> w.computations,
                               result_receivers |-> w.result_receivers,
                               initial_senders |-> w.initial_senders]
                   /\ chans' = NewChannels(w)
                   /\ phase' = "compiled"
              ELSE /\ phase' = "new_panicked"
                   /\ UNCHANGED <<comp, chans>>
    /\ UNCHANGED <<dag, returned, called, dot_text, tasks, results, run>>

\* Computation::process(initial), up to join_all: the initial sends, then one
\* spawned task per ComputationNode.
ProcessStart ==
    /\ phase = "compiled"
    /\ \E initial \in InitialValues :
          LET r == SendInitial(chans, comp.initial_senders, initial)
          IN  /\ run' = [initial |-> initial, profile |-> "unobserved"]
              /\ chans' = r.chans
              /\ IF r.ok
                 THEN /\ tasks' = [id \in DOMAIN comp.computations |->
                                     SpawnedTask(comp.computations[id])]
                      /\ phase' = "running"
                 ELSE /\ phase' = "failed"
                      /\ UNCHANGED tasks
    /\ UNCHANGED <<dag, returned, called, dot_text, comp, results>>

\* A turn of the loop over the receivers with try_recv().unwrap_or_default()
\* for the await: it takes the value when there is one and does not wait.
TaskRecvNoWait(id) ==
    LET node == comp.computations[id]
        t == tasks[id]
        c == node.receivers[t.next]
    IN  /\ phase = "running"
        /\ t.pc = "recv"
        /\ chans' = [chans EXCEPT ![c].rx = IF chans[c].tx = "sent" THEN "received" ELSE @]
        /\ tasks' = [tasks EXCEPT ![id].inputs =
                                      Append(@, IF chans[c].tx = "sent" THEN chans[c].slot[1]
                                                ELSE DefaultValue),
                                  ![id].next = @ + 1,
                                  ![id].pc = AfterRecv(node, t.next + 1)]
        /\ UNCHANGED <<dag, returned, called, dot_text, comp, results, run, phase>>

\* ComputationNode::process, one turn of the loop over the receivers:
\* receiver.await.unwrap() completes once the value is sent, and panics when
\* the Sender was dropped without sending.
TaskRecv(id) ==
    LET node == comp.computations[id]
        t == tasks[id]
        c == node.receivers[t.next]
    IN  /\ phase = "running"
        /\ t.pc = "recv"
        /\ \/ /\ chans[c].tx = "sent"
              /\ chans' = [chans EXCEPT ![c].rx = "received"]
              /\ tasks' = [tasks EXCEPT ![id].inputs = Append(@, chans[c].slot[1]),
                                        ![id].next = @ + 1,
                                        ![id].pc = AfterRecv(node, t.next + 1)]
           \/ /\ chans[c].tx = "dropped"
              /\ chans' = DropNode(chans, node)
              /\ tasks' = [tasks EXCEPT ![id].pc = "panicked"]
        /\ UNCHANGED <<dag, returned, called, dot_text, comp, results, run, phase>>

\* ComputationNode::process: self.operation.process(&inputs).await; a panic
\* of the reduction ends the task and drops the node.
TaskOperate(id) ==
    LET node == comp.computations[id]
        t == tasks[id]
        overflowed == ~OperationProcess(node.operation, t.inputs, TRUE).ok
    IN  /\ phase = "running"
        /\ t.pc = "operate"
        /\ \E checks \in Profiles(run) :
              LET r == OperationProcess(node.operation, t.inputs, checks)
              IN  /\ run' = Observed(run, overflowed, checks)
                  /\ IF r.ok
                     THEN /\ tasks' = [tasks EXCEPT ![id].pc = AfterSend(node, 1),
                                                    ![id].next = 1,
                                                    ![id].result = <<r.value>>]
                          /\ UNCHANGED chans
                     ELSE /\ tasks' = [tasks EXCEPT ![id].pc = "panicked"]
                          /\ chans' = DropNode(chans, node)
        /\ UNCHANGED <<dag, returned, called, dot_text, comp, results, phase>>

\* ComputationNode::process, one turn of the for_each over the senders:
\* sender.send(result.clone()).expect("Error sending"). A panic drops the
\* node with the senders not yet used.
TaskSend(id) ==
    LET node == comp.computations[id]
        t == tasks[id]
        r == Send(chans, node.senders[t.next], t.result[1])
    IN  /\ phase = "running"
        /\ t.pc = "send"
        /\ IF r.ok
           THEN /\ chans' = r.chans
                /\ tasks' = [tasks EXCEPT ![id].next = @ + 1,
                                          ![id].pc = AfterSend(node, t.next + 1)]
           ELSE /\ chans' = DropNode(r.chans, node)
                /\ tasks' = [tasks EXCEPT ![id].pc = "panicked"]
        /\ UNCHANGED <<dag, returned, called, dot_text, comp, results, run, phase>>

\* Computation::process without join_all(tasks).await.
JoinAllNoWait ==
    /\ phase = "running"
    /\ phase' = IF Len(ResultOrder(comp)) = 0 THEN "returned" ELSE "collect"
    /\ UNCHANGED <<dag, returned, called, dot_text, comp, chans, tasks, results, run>>

\* join_all(tasks).await completes when every task has ended; a task that
\* panicked yields an Err that process discards.
JoinAll ==
    /\ phase = "running"
    /\ \A id \in DOMAIN tasks : TaskFinished(tasks[id])
    /\ phase' = IF Len(ResultOrder(comp)) = 0 THEN "returned" ELSE "collect"
    /\ UNCHANGED <<dag, returned, called, dot_text, comp, chans, tasks, results, run>>

\* The loop over result_receivers with unwrap_or_default() for unwrap().
CollectDefaulting ==
    /\ phase = "collect"
    /\ LET c == ResultOrder(comp)[Len(results) + 1]
       IN  /\ chans[c].tx \in {"sent", "dropped"}
           /\ chans' = [chans EXCEPT ![c].rx = "received"]
           /\ results' = Append(results, IF chans[c].tx = "sent" THEN chans[c].slot[1]
                                         ELSE DefaultValue)
           /\ phase' = IF Len(results') = Len(ResultOrder(comp))
                       THEN "returned" ELSE "collect"
    /\ UNCHANGED <<dag, returned, called, dot_text, comp, tasks, run>>

\* One turn of the loop over result_receivers: receiver.await.unwrap(), then
\* results.push(value); process returns results after the last turn.
Collect ==
    /\ phase = "collect"
    /\ LET c == ResultOrder(comp)[Len(results) + 1]
       IN  \/ /\ chans[c].tx = "sent"
              /\ chans' = [chans EXCEPT ![c].rx = "received"]
              /\ results' = Append(results, chans[c].slot[1])
              /\ phase' = IF Len(results') = Len(ResultOrder(comp))
                          THEN "returned" ELSE "collect"
           \/ /\ chans[c].tx = "dropped"
              /\ phase' = "failed"
              /\ UNCHANGED <<chans, results>>
    /\ UNCHANGED <<dag, returned, called, dot_text, comp, tasks, run>>

TaskStep(id) == TaskRecv(id) \/ TaskOperate(id) \/ TaskSend(id)

Tasks == \E id \in DOMAIN tasks : TaskStep(id)

\* The program in "execute" mode: build a graph, compile it, run it.
Init ==
    InitFrom({<<>>, DefaultManyBranches, AdditionSingleResult, AdditionDag,
              LongDag(ChainLength - 1), ThreeInputs, DoubledParent})

Next == AddNode \/ Compile \/ ProcessStart \/ Tasks \/ JoinAll \/ Collect

Spec == Init /\ [][Next]_vars

\* The same under the scheduling of the tokio runtime: a task that can take a
\* step is eventually polled, and so is the future of process.
FairSpec ==
    Spec /\ WF_vars(Tasks) /\ WF_vars(JoinAll) /\ WF_vars(Collect)

\* The program in "print" mode: build a graph, render it.
InitDag == InitFrom({<<>>, DotPrint})

NextDag == AddNode \/ Dot

SpecDag == InitDag /\ [][NextDag]_vars

(***************************************************************************)
(* Vocabulary of the properties                                            *)
(***************************************************************************)
\* The nodes without children: the terminal nodes.
Terminals(d) == {id \in DOMAIN d.nodes : Len(d.nodes[id].children) = 0}

\* The elements of a finite set of integers, ascending.
RECURSIVE Ascending(_)
Ascending(S) ==
    IF S = {} THEN <<>>
    ELSE LET m == CHOOSE x \in S : \A y \in S : x <= y
         IN  <<m>> \o Ascending(S \ {m})

\* The edges of the graph: <<parent, k>> is the k-th child entry of parent.
Edges(d) == UNION {{<<p, k>> : k \in 1..Len(d.nodes[p].children)} : p \in DOMAIN d.nodes}
EdgesInto(d, id) == {e \in Edges(d) : d.nodes[e[1]].children[e[2]] = id}

RECURSIVE Total(_)
Total(values) == IF values = <<>> THEN 0 ELSE Head(values) + Total(Tail(values))

RECURSIVE Multiplied(_)
Multiplied(values) == IF values = <<>> THEN 1 ELSE Head(values) * Multiplied(Tail(values))

\* The reference evaluation of the graph: a start node reduces <<v>>, any
\* other node one output per parent edge; the reduction is taken in the
\* integers and brought into T at the end.
RECURSIVE Reference(_, _, _)
RECURSIVE ReferenceInputs(_, _, _)
ReferenceInputs(d, edges, v) ==
    IF edges = {} THEN <<>>
    ELSE LET e == CHOOSE x \in edges : TRUE
         IN  <<Reference(d, e[1], v)>> \o ReferenceInputs(d, edges \ {e}, v)

Reference(d, id, v) ==
    LET inputs == IF EdgesInto(d, id) = {} THEN <<v>>
                  ELSE ReferenceInputs(d, EdgesInto(d, id), v)
        operation == d.nodes[id].operation
    IN  CASE operation \in {"Default", "Delay"} -> 0
          [] operation = "Sum" -> Wrap(Total(inputs))
          [] operation = "Product" -> Wrap(Multiplied(inputs))

Running == phase \in {"running", "collect", "returned", "failed"}

\* The node whose task holds the Sender of channel c.
SenderNode(c) == CHOOSE id \in DOMAIN comp.computations :
                    c \in SeqToSet(comp.computations[id].senders)

TaskComplete(id) ==
    /\ tasks[id].pc = "done"
    /\ Len(tasks[id].inputs) = Len(comp.computations[id].receivers)
    /\ \A c \in SeqToSet(comp.computations[id].receivers) : chans[c].rx = "received"
    /\ \A c \in SeqToSet(comp.computations[id].senders) : chans[c].tx = "sent"

IsChain(d) ==
    /\ d.current_id = ChainLength
    /\ d.starts = <<1>>
    /\ \A id \in 1..(ChainLength - 1) : d.nodes[id].children = <<id + 1>>

C2_ReferenceEvaluation ==
    Running =>
        /\ \A id \in Terminals(dag) :
              LET c == comp.computations[id].senders[1]
              IN  chans[c].slot # <<>> =>
                     chans[c].slot[1] = Reference(dag, id, run.initial)
        /\ \A i \in 1..Len(results) :
              results[i] = Reference(dag, SenderNode(comp.result_receivers[i]), run.initial)

\* The diamond of process_addition_dag has returned <<4>> for the initial value 1.
C2_Witness ==
    /\ phase = "returned"
    /\ dag = Built(AdditionDag).dag
    /\ run.initial = 1
    /\ results = <<4>>

(***************************************************************************)
(* C3                                                                      *)
(***************************************************************************)
\* C3: the sequence process returns has one element per node whose children
\* are empty.
C3_OneResultPerTerminal ==
    phase = "returned" => Len(results) = Cardinality(Terminals(dag))

\* A run has returned for a graph with two terminal nodes and two nodes that
\* are not terminal.
C3_Witness ==
    /\ phase = "returned"
    /\ Cardinality(Terminals(dag)) = 2
    /\ Cardinality(DOMAIN dag.nodes) = 4

(***************************************************************************)
(* C4                                                                      *)
(***************************************************************************)
\* C4, as stated: the i-th element process returns is the output of the
\* terminal node with the i-th smallest id.
C4_AscendingTerminalOrder ==
    phase = "returned" =>
        /\ Len(results) = Cardinality(Terminals(dag))
        /\ \A i \in 1..Len(results) :
              results[i] = Reference(dag, Ascending(Terminals(dag))[i], run.initial)

(***************************************************************************)
(* C5                                                                      *)
(***************************************************************************)
\* C5, as stated: as long as every add_node call has returned an id, every
\* edge goes from a smaller id to a larger one.
C5_EdgesGoForward ==
    phase = "build" =>
        \A e \in Edges(dag) : e[1] < dag.nodes[e[1]].children[e[2]]

(***************************************************************************)
(* C6                                                                      *)
(***************************************************************************)
\* C6, as stated: an add_node call that fails on an unknown parent leaves
\* the node map, the children, starts and the id counter as they were.
C6_FailedCallLeavesGraph ==
    [][phase' = "add_node_panicked" => dag' = dag]_vars

(***************************************************************************)
(* C7                                                                      *)
(***************************************************************************)
SomeTaskPanicked == \E id \in DOMAIN tasks : tasks[id].pc = "panicked"

\* C7: run is all-or-nothing. Whenever process returns, no task has aborted
\* and the sequence holds the value of every result sink, one per terminal
\* node; and once a task has aborted, process eventually fails: it neither
\* returns nor hangs.
C7_AllOrNothing ==
    /\ [](phase = "returned" =>
            /\ ~SomeTaskPanicked
            /\ Len(results) = Cardinality(Terminals(dag))
            /\ Len(results) = Len(comp.result_receivers)
            /\ \A i \in 1..Len(results) :
                  results[i] = chans[comp.result_receivers[i]].slot[1])
    /\ [](SomeTaskPanicked => phase # "returned")
    /\ (SomeTaskPanicked ~> (phase = "failed"))

\* A run has failed after a task aborted, with the value of another terminal
\* node already collected.
C7_Witness == phase = "failed" /\ SomeTaskPanicked /\ Len(results) > 0

(***************************************************************************)
(* C8                                                                      *)
(***************************************************************************)
\* C8: the k-th add_node call returns k, the node ids are exactly
\* 1..current_id, each node carries its own id, and no call removes a node
\* or lowers the counter.
C8_IdAllocation ==
    /\ [](/\ returned = [k \in 1..Len(returned) |-> k]
          /\ DOMAIN dag.nodes = 1..dag.current_id
          /\ \A id \in DOMAIN dag.nodes : dag.nodes[id].id = id
          /\ Len(returned) = IF phase = "add_node_panicked"
                             THEN dag.current_id - 1 ELSE dag.current_id)
    /\ [][/\ DOMAIN dag.nodes \subseteq DOMAIN dag'.nodes
          /\ dag.current_id <= dag'.current_id]_vars

\* Two calls have returned on a graph created by Default.
C8_Witness == phase = "build" /\ returned = <<1, 2>> /\ dag.current_id = 2

(***************************************************************************)
(* C9                                                                      *)
(***************************************************************************)
SumProductGraph(d) ==
    \A id \in DOMAIN d.nodes : d.nodes[id].operation \in {"Sum", "Product"}

Permuted(values, order) == [i \in 1..Len(values) |-> values[order[i]]]

SameOutcome(r1, r2) == r1.ok = r2.ok /\ (r1.ok => r1.value = r2.value)

\* C9, as stated: in a graph of Sum and Product nodes, the outcome of a
\* node's reduction is the same whatever the order in which its inbound
\* channels were read.
C9_InputOrderIrrelevant ==
    (Running /\ SumProductGraph(dag)) =>
        \A id \in DOMAIN tasks :
            LET node == comp.computations[id]
                inputs == tasks[id].inputs
            IN  Len(inputs) = Len(node.receivers) =>
                  \A order \in IterationOrders(1..Len(inputs)), checks \in Profiles(run) :
                     SameOutcome(OperationProcess(node.operation, Permuted(inputs, order), checks),
                                 OperationProcess(node.operation, inputs, checks))

(***************************************************************************)
(* C10                                                                     *)
(***************************************************************************)
Count(lines, line) == Cardinality({i \in DOMAIN lines : lines[i] = line})

ArrowText(p, c) == "  " \o ToString(p) \o " -> " \o ToString(c) \o ";"
AloneText(id) == "  " \o ToString(id) \o ";"

\* C10: the text dot returns has, between its first and last line, exactly
\* one line "parent -> child" for every edge and exactly one line naming
\* the node for every node without children, and no other line.
C10_Render ==
    dot_text # <<>> =>
        /\ Head(dot_text) = "digraph {"
        /\ dot_text[Len(dot_text)] = "}"
        /\ Len(dot_text) = 2 + Cardinality(Edges(dag)) + Cardinality(Terminals(dag))
        /\ \A p \in DOMAIN dag.nodes, c \in DOMAIN dag.nodes :
              Count(dot_text, ArrowText(p, c)) =
                 Cardinality({e \in Edges(dag) : e[1] = p /\ dag.nodes[p].children[e[2]] = c})
        /\ \A id \in DOMAIN dag.nodes :
              Count(dot_text, AloneText(id)) = IF id \in Terminals(dag) THEN 1 ELSE 0

\* The graph of dot_print (edges 1->3, 2->3, 3->4, 3->5) has been rendered.
C10_Witness ==
    /\ dag = Built(DotPrint).dag
    /\ \A line \in {"  1 -> 3;", "  2 -> 3;", "  3 -> 4;", "  3 -> 5;", "  4;", "  5;"} :
          Count(dot_text, line) = 1
    /\ Count(dot_text, "  3;") = 0

(***************************************************************************)
(* C11                                                                     *)
(***************************************************************************)
Written(c) == chans[c].tx = "sent"
Read(c) == chans[c].rx = "received"

\* C11: every channel is written at most once and read at most once, no
\* read completes before the write, and when process returns every channel
\* has been written and read: a Sender once used or dropped stays so with
\* the value it stored, a Receiver once used or dropped stays so, a Receiver
\* yields a value only when one has been sent.
C11_SingleUse ==
    /\ [](\A c \in DOMAIN chans :
            /\ Read(c) => Written(c)
            /\ Written(c) <=> chans[c].slot # <<>>
            /\ Len(chans[c].slot) <= 1)
    /\ [](phase = "returned" => \A c \in DOMAIN chans : Written(c) /\ Read(c))
    /\ [][\A c \in DOMAIN chans :
            /\ c \in DOMAIN chans'
            /\ chans[c].tx # "held" =>
                  chans'[c].tx = chans[c].tx /\ chans'[c].slot = chans[c].slot
            /\ chans[c].rx # "held" => chans'[c].rx = chans[c].rx
            /\ (chans[c].rx = "held" /\ chans'[c].rx = "received") => Written(c)]_vars

\* process_addition_single_result has returned: seven channels (three
\* initial values, three edges, one result), each written and read.
C11_Witness ==
    /\ phase = "returned"
    /\ dag = Built(AdditionSingleResult).dag
    /\ Cardinality(DOMAIN chans) = 7
    /\ \A c \in DOMAIN chans : Written(c) /\ Read(c)

(***************************************************************************)
(* C12                                                                     *)
(***************************************************************************)
AllTasksFinished == \A id \in DOMAIN tasks : TaskFinished(tasks[id])

\* The step in which the read of a result sink ends, with a value or with the
\* panic of the unwrap; NextSink is the sink that read is of.
SinkReadEnds == phase = "collect" /\ (results' # results \/ phase' = "failed")
NextSink == comp.result_receivers[Len(results) + 1]

Parents(d, id) == {e[1] : e \in EdgesInto(d, id)}

RECURSIVE AncestorsWithin(_, _, _)
AncestorsWithin(d, S, n) ==
    IF n = 0 THEN S
    ELSE AncestorsWithin(d, S \cup UNION {Parents(d, x) : x \in S}, n - 1)

Ancestors(d, id) == AncestorsWithin(d, Parents(d, id), Cardinality(DOMAIN d.nodes))

\* The channels that carry a value to node id: one per parent edge, and the
\* initial-value channel when id is a start node.
ChannelsInto(d, id) ==
    {EdgeChannel(e[1], e[2]) : e \in EdgesInto(d, id)}
        \cup {InitChannel(x) : x \in {id} \cap SeqToSet(d.starts)}

\* The task of node id is at, or past, the call of its operation.
Reducing(id) == tasks[id].pc \in {"operate", "send", "done"}

HasWritten(id) == \E c \in SeqToSet(comp.computations[id].senders) : Written(c)

\* C13: a task calls its operation only after every parent has written the
\* edge channel to it, a start node only after its initial value is written;
\* and a node writes an output only after every ancestor has written the
\* channels on the paths to it.
C13_DataDependency ==
    Running =>
        \A id \in DOMAIN tasks :
            /\ Reducing(id) => \A c \in ChannelsInto(dag, id) : Written(c)
            /\ HasWritten(id) =>
                  \A a \in Ancestors(dag, id) \cup {id} :
                      \A c \in ChannelsInto(dag, a) : Written(c)

\* In the diamond of process_addition_dag node 6 is about to reduce the
\* outputs of nodes 4 and 5 while process has not yet joined.
C13_Witness ==
    /\ phase = "running"
    /\ dag = Built(AdditionDag).dag
    /\ tasks[6].pc = "operate"
    /\ Ancestors(dag, 6) = {1, 2, 3, 4, 5}

(***************************************************************************)
(* C14                                                                     *)
(***************************************************************************)
Compiled == phase \in {"compiled", "running", "collect", "returned", "failed"}

\* The parent at the far end of each inbound endpoint of a node, in the
\* order of the node's receivers.
InboundParents(node) == [k \in 1..Len(node.receivers) |-> node.receivers[k][2]]

\* C14, as stated: the inbound list of a node with two or more parents
\* follows the order of the parent_ids of the add_node call that created
\* it, and the outbound list of a node with children follows the order of
\* its children.
C14_RegistrationOrder ==
    Compiled =>
        \A id \in DOMAIN comp.computations :
            LET node == comp.computations[id]
            IN  /\ Len(called[id].parents) >= 2 =>
                      InboundParents(node) = called[id].parents
                /\ Len(dag.nodes[id].children) > 0 =>
                      node.senders = [k \in 1..Len(dag.nodes[id].children) |->
                                         EdgeChannel(id, k)]

(***************************************************************************)
(* C15                                                                     *)
(***************************************************************************)
\* The step in which the task of node id ends a write, whether it succeeds
\* or panics; WrittenTo is the channel of that write.
WriteEnds(id) == tasks[id].pc = "send" /\ tasks'[id] # tasks[id]
WrittenTo(id) == comp.computations[id].senders[tasks[id].next]

\* C15, as stated: whenever process writes the initial values or a task
\* writes its output, the Receiver of the channel has not been dropped and
\* the write succeeds.
C15_WritesNeverFail ==
    /\ [][\A id \in DOMAIN tasks :
            WriteEnds(id) =>
                /\ chans[WrittenTo(id)].rx # "dropped"
                /\ chans'[WrittenTo(id)].tx = "sent"
                /\ tasks'[id].pc # "panicked"]_vars
    /\ [][phase = "compiled" => phase' # "failed"]_vars

(***************************************************************************)
(* C16                                                                     *)
(***************************************************************************)
\* The ids created by a call with an empty parents list.
CreatedWithoutParents == {id \in 1..Len(called) : called[id].parents = <<>>}

\* C16: after add_node calls that returned, an id is in starts exactly when
\* it was created with an empty parents list, which is exactly when it has
\* no incoming edge; starts lists these ids once each in creation order; a
\* call with a non-empty parents list leaves starts as it was; no call
\* removes an id from starts.
C16_StartNodes ==
    /\ [](phase = "build" =>
            /\ \A id \in DOMAIN dag.nodes :
                  /\ id \in SeqToSet(dag.starts) <=> id \in CreatedWithoutParents
                  /\ id \in CreatedWithoutParents <=> EdgesInto(dag, id) = {}
            /\ dag.starts = Ascending(CreatedWithoutParents))
    /\ [][/\ (phase' = "build" /\ called' # called
                 /\ called'[Len(called')].parents # <<>>) => dag'.starts = dag.starts
          /\ phase' = "add_node_panicked" => dag'.starts = dag.starts
          /\ \E n \in 0..1 : dag.starts = SubSeq(dag'.starts, 1, Len(dag'.starts) - n)]_vars

\* A call without parents and then a call naming node 1 have returned.
C16_Witness ==
    /\ phase = "build"
    /\ Len(called) = 2
    /\ called[1].parents = <<>>
    /\ called[2].parents = <<1>>
    /\ dag.starts = <<1>>
    /\ EdgesInto(dag, 2) # {}

(***************************************************************************)
(* C17                                                                     *)
(***************************************************************************)
Descendants(d, id) == {x \in DOMAIN d.nodes : id \in Ancestors(d, x)}

\* C17: as long as the task of a node has written no output, no descendant
\* of the node calls its operation or writes an output, process does not
\* return, and while that task has not ended process stays at the join:
\* nothing releases the descendants or the join.
C17_StallPropagation ==
    Running =>
        \A id \in DOMAIN tasks :
            ~HasWritten(id) =>
                /\ \A x \in Descendants(dag, id) : ~Reducing(x) /\ ~HasWritten(x)
                /\ phase # "returned"
                /\ ~TaskFinished(tasks[id]) => phase = "running"

\* In the diamond of process_addition_dag node 1 has its input and has not
\* written, node 3 has finished, node 5 has read node 2's output and nodes 4
\* and 6 wait.
C17_Witness ==
    /\ phase = "running"
    /\ dag = Built(AdditionDag).dag
    /\ tasks[1].pc = "operate"
    /\ tasks[3].pc = "done"
    /\ tasks[5].pc = "operate"
    /\ tasks[4].pc = "recv"
    /\ tasks[6].pc = "recv"
    /\ Descendants(dag, 1) = {4, 6}

(***************************************************************************)
(* C18                                                                     *)
(***************************************************************************)
\* Who holds the Sender, and who the Receiver, of channel c: <<id, k>> for
\* the k-th entry of a node's list, <<0, k>> for the k-th entry of a list of
\* the Computation.
ProducerOwners(c) ==
    {<<0, k>> : k \in {j \in DOMAIN comp.initial_senders : comp.initial_senders[j] = c}}
        \cup UNION {{<<id, k>> : k \in {j \in DOMAIN comp.computations[id].senders :
                                           comp.computations[id].senders[j] = c}} :
                    id \in DOMAIN comp.computations}
ConsumerOwners(c) ==
    {<<0, k>> : k \in {j \in DOMAIN comp.result_receivers : comp.result_receivers[j] = c}}
        \cup UNION {{<<id, k>> : k \in {j \in DOMAIN comp.computations[id].receivers :
                                           comp.computations[id].receivers[j] = c}} :
                    id \in DOMAIN comp.computations}

\* C18: after Computation::new there is one ComputationNode per graph node,
\* with the node's operation; a start node has the initial-value Receiver
\* alone, any other node one Receiver per parent edge; a terminal node has
\* the result Sender alone, any other node one Sender per child edge; there
\* are |edges| + |starts| + |terminals| channels; the Sender and the
\* Receiver of every channel are each held in exactly one place.
C18_WiringShape ==
    Compiled =>
        /\ DOMAIN comp.computations = DOMAIN dag.nodes
        /\ \A id \in DOMAIN comp.computations :
              LET node == comp.computations[id]
              IN  /\ node.id = id
                  /\ node.operation = dag.nodes[id].operation
                  /\ Len(node.receivers) = Cardinality(ChannelsInto(dag, id))
                  /\ SeqToSet(node.receivers) = ChannelsInto(dag, id)
                  /\ id \in SeqToSet(dag.starts) => node.receivers = <<InitChannel(id)>>
                  /\ id \notin SeqToSet(dag.starts) =>
                        Len(node.receivers) = Cardinality(EdgesInto(dag, id))
                  /\ id \in Terminals(dag) => node.senders = <<ResultChannel(id)>>
                  /\ id \notin Terminals(dag) =>
                        /\ Len(node.senders) = Len(dag.nodes[id].children)
                        /\ SeqToSet(node.senders) =
                              {EdgeChannel(id, k) : k \in DOMAIN dag.nodes[id].children}
        /\ Len(comp.initial_senders) = Len(dag.starts)
        /\ Len(comp.result_receivers) = Cardinality(Terminals(dag))
        /\ Cardinality(DOMAIN chans) =
              Cardinality(Edges(dag)) + Len(dag.starts) + Cardinality(Terminals(dag))
        /\ \A c \in DOMAIN chans :
              /\ Cardinality(ProducerOwners(c)) = 1
              /\ Cardinality(ConsumerOwners(c)) = 1

\* The diamond of process_addition_dag has been compiled: six edges, three
\* starts, one terminal, ten channels, none used yet.
C18_Witness ==
    /\ phase = "compiled"
    /\ dag = Built(AdditionDag).dag
    /\ Cardinality(DOMAIN chans) = 10
    /\ Len(comp.computations[6].receivers) = 2
    /\ \A c \in DOMAIN chans : chans[c].tx = "held" /\ chans[c].rx = "held"

(***************************************************************************)
(* C19                                                                     *)
(***************************************************************************)
Multiplicity(seq, x) == Cardinality({k \in DOMAIN seq : seq[k] = x})

\* The positions of the inbound endpoints of node that come from parent p.
InboundFrom(node, p) ==
    {k \in DOMAIN node.receivers :
        node.receivers[k][1] = "edge" /\ node.receivers[k][2] = p}

NamesParentTwice ==
    \E id \in DOMAIN called, p \in DOMAIN dag.nodes :
        Multiplicity(called[id].parents, p) >= 2

\* C19: parent ids are not de-duplicated. A parent named m times in a call
\* that returned has the new id m times in its children; Computation::new
\* makes m channels from that parent to the child; the m inputs the child
\* reads from them are the parent's output; a Sum node created with parents
\* <<p, p>> outputs twice the output of p, in the arithmetic of T; and a run
\* of a graph with a parent named twice ends.
C19_DuplicateParents ==
    /\ [](phase \in {"build", "compiled", "running", "collect", "returned", "failed"} =>
            \A id \in DOMAIN called, p \in DOMAIN dag.nodes :
                Cardinality({e \in EdgesInto(dag, id) : e[1] = p})
                    = Multiplicity(called[id].parents, p))
    /\ [](Compiled =>
            \A id \in DOMAIN called, p \in DOMAIN dag.nodes :
                LET node == comp.computations[id]
                IN  /\ Cardinality(InboundFrom(node, p))
                          = Multiplicity(called[id].parents, p)
                    /\ Cardinality({node.receivers[k] : k \in InboundFrom(node, p)})
                          = Multiplicity(called[id].parents, p))
    /\ [](Running =>
            \A id \in DOMAIN tasks, p \in DOMAIN tasks :
                LET node == comp.computations[id]
                    t == tasks[id]
                IN  /\ \A k \in InboundFrom(node, p) :
                          k <= Len(t.inputs) => t.inputs[k] = tasks[p].result[1]
                    /\ (/\ node.operation = "Sum"
                        /\ called[id].parents = <<p, p>>
                        /\ t.result # <<>>) =>
                          t.result[1] = Wrap(2 * tasks[p].result[1]))
    /\ (phase = "running" /\ NamesParentTwice) ~> (phase \in {"returned", "failed"})

\* Node 2 = Sum(1, 1) has read node 1's output 3 twice and written 6; the
\* run has returned <<39>>.
C19_Witness ==
    /\ phase = "returned"
    /\ called = DoubledParent
    /\ dag.nodes[1].children = <<2, 2, 4>>
    /\ tasks[2].inputs = <<3, 3>>
    /\ tasks[2].result = <<6>>
    /\ results = <<39>>

(***************************************************************************)
(* C20                                                                     *)
(***************************************************************************)
\* C20, as stated: a non-empty graph made by add_node calls that each
\* returned has a start node and a terminal node: the node with the
\* smallest id is a start and the node with the largest id has no children.
C20_StartAndTerminal ==
    (phase = "build" /\ dag.current_id > 0) =>
        /\ dag.starts # <<>>
        /\ Terminals(dag) # {}
        /\ 1 \in SeqToSet(dag.starts)
        /\ dag.nodes[dag.current_id].children = <<>>

====
